---- MODULE Spec2Model ----
(***************************************************************************)
(* A model of generate_rss.py: fetch_page (retry loop with exponential     *)
(* backoff), find_links (anchor extraction, link normalisation, relevance  *)
(* filter, de-duplication, date sniffing), build_rss / escape_xml (RSS 2.0 *)
(* serialisation) and main (pipeline plus the top-level fallback feed).    *)
(*                                                                         *)
(* Python strings are modelled as sequences of one-character strings, so   *)
(* that prefix tests, substring tests, stripping and escaping are computed *)
(* character by character as the code computes them.                       *)
(***************************************************************************)
EXTENDS Integers, Sequences, FiniteSets, TLC

VARIABLES
    pc,           \* position of main: start, fetch, find, build, write, except, done, exited
    max_retries,  \* fetch_page's parameter
    attempt,      \* fetch_page's loop variable
    fpc,          \* position inside fetch_page: try, except, sleep
    fstatus,      \* fetch_page's frame: idle, running, returned, raised
    exc,          \* the exception this call caught last ("none" before any)
    wait_time,    \* the last backoff delay passed to time.sleep (0 before any)
    onlyConn,     \* history: every failed attempt of this call was a ConnectionError
    nreq,         \* history: HTTP requests made by this call of fetch_page
    served,       \* history: the body of the 2xx response the server sent (<<>> = none yet)
    fresult,      \* fetch_page's return value, as <<r.text>> (<<>> = nothing returned)
    html,         \* main's local html, as <<page>>
    raw_hash,     \* main's local raw_hash
    items,        \* main's local items
    rss,          \* main's local rss, as <<document>>
    error,        \* the exception main's except clause caught: [from, msg]
    file,         \* contents of OUTPUT, as <<document>> (<<>> = not written)
    exit_code,    \* process exit status (-1 while running)
    esc_in,       \* input of the escape_xml harness
    esc_out,      \* its output, as <<string>> (<<>> = not applied yet)
    epc           \* position of the escape_xml harness

vars == <<pc, max_retries, attempt, fpc, fstatus, exc, wait_time, onlyConn, nreq,
          served, fresult, html, raw_hash, items, rss, error, file, exit_code,
          esc_in, esc_out, epc>>

fetchVars == <<max_retries, attempt, fpc, fstatus, exc, wait_time, onlyConn, nreq,
               served, fresult>>

mainVars == <<html, raw_hash, items, rss, error, file, exit_code>>

escVars == <<esc_in, esc_out, epc>>

----------------------------------------------------------------------------
(* Bounds of the model *)

\* longest page, in anchors
MaxAnchors == 2

\* largest max_retries a direct caller of fetch_page passes
MaxRetries == 3

\* longest string handed to escape_xml by the harness
MaxStrLen == 4

----------------------------------------------------------------------------
(* Module-level constants of the program *)

TARGET == <<"h", "t", "t", "p", "s", ":", "/", "/", "c", "d", "s", "c", "o", "o", "n", "l", "i", "n", "e", ".", "g", "o", "v", ".", "i", "n", "/", "C", "D", "S", "C", "O", "/", "c", "d", "s", "c", "o", "D", "r", "u", "g", "s">>

CHANNEL_TITLE == <<"C", "D", "S", "C", "O", " ", "-", " ", "c", "d", "s", "c", "o", "D", "r", "u", "g", "s", " ", "(", "a", "u", "t", "o", ")">>

CHANNEL_LINK == TARGET

CHANNEL_DESC == <<"A", "u", "t", "o", "m", "a", "t", "e", "d", " ", "R", "S", "S", " ", "f", "o", "r", " ", "C", "D", "S", "C", "O", " ", "c", "d", "s", "c", "o", "D", "r", "u", "g", "s", " ", "p", "a", "g", "e", " ", "(", "g", "e", "n", "e", "r", "a", "t", "e", "d", ")", ".">>

BaseOrigin == <<"h", "t", "t", "p", "s", ":", "/", "/", "c", "d", "s", "c", "o", "o", "n", "l", "i", "n", "e", ".", "g", "o", "v", ".", "i", "n">>

DefaultMaxRetries == 5

ConnBackoffBase == 5

TimeoutBackoffBase == 3

RequestBackoffBase == 3

MinTitleLen == 6

FilterSubstrings ==
    { <<".", "p", "d", "f">>, <<"/", "u", "p", "l", "o", "a", "d", "s", "/">>, <<"d", "o", "w", "n", "l", "o", "a", "d">>, <<"v", "i", "e", "w", "f", "i", "l", "e">>, <<"u", "p", "l", "o", "a", "d", "s">> }

----------------------------------------------------------------------------
(* Python str methods on character sequences *)

Whitespace == {" ", "\t", "\n"}

Uppers == <<"A", "B", "C", "D", "E", "F", "G", "H", "I", "J", "K", "L", "M", "N", "O", "P", "Q", "R", "S", "T", "U", "V", "W", "X", "Y", "Z">>

Lowers == <<"a", "b", "c", "d", "e", "f", "g", "h", "i", "j", "k", "l", "m", "n", "o", "p", "q", "r", "s", "t", "u", "v", "w", "x", "y", "z">>

Digits == {"0", "1", "2", "3", "4", "5", "6", "7", "8", "9"}

LowerChar(c) ==
    IF \E i \in 1..Len(Uppers) : Uppers[i] = c
    THEN Lowers[CHOOSE i \in 1..Len(Uppers) : Uppers[i] = c]
    ELSE c

Lower(s) == [i \in 1..Len(s) |-> LowerChar(s[i])]

StartsWith(s, p) == Len(s) >= Len(p) /\ SubSeq(s, 1, Len(p)) = p

Contains(s, p) ==
    \E i \in 1..(Len(s) - Len(p) + 1) : SubSeq(s, i, i + Len(p) - 1) = p

RECURSIVE LStrip(_, _)
LStrip(s, chars) ==
    IF s # <<>> /\ Head(s) \in chars THEN LStrip(Tail(s), chars) ELSE s

RECURSIVE RStrip(_, _)
RStrip(s, chars) ==
    IF s # <<>> /\ s[Len(s)] \in chars
    THEN RStrip(SubSeq(s, 1, Len(s) - 1), chars)
    ELSE s

Strip(s) == RStrip(LStrip(s, Whitespace), Whitespace)

\* str.split(): the maximal runs of non-whitespace characters, in order
RECURSIVE SplitFrom(_, _, _)
SplitFrom(s, cur, acc) ==
    IF s = <<>>
    THEN IF cur = <<>> THEN acc ELSE Append(acc, cur)
    ELSE IF Head(s) \in Whitespace
         THEN SplitFrom(Tail(s), <<>>, IF cur = <<>> THEN acc ELSE Append(acc, cur))
         ELSE SplitFrom(Tail(s), Append(cur, Head(s)), acc)

Split(s) == SplitFrom(s, <<>>, <<>>)

\* the concatenation of a sequence of strings (halving keeps the evaluation shallow)
RECURSIVE Flatten(_)
Flatten(ss) ==
    IF Len(ss) = 0 THEN <<>>
    ELSE IF Len(ss) = 1 THEN ss[1]
    ELSE LET m == Len(ss) \div 2
         IN  Flatten(SubSeq(ss, 1, m)) \o Flatten(SubSeq(ss, m + 1, Len(ss)))

\* str.replace(old, new) for a one-character old: every occurrence replaced
Replace(s, old, new) ==
    Flatten([i \in 1..Len(s) |-> IF s[i] = old THEN new ELSE <<s[i]>>])

----------------------------------------------------------------------------
(* escape_xml *)

escape_xml_AmpLast(s) ==
    Replace(Replace(Replace(Replace(Replace(s,
        "<", <<"&", "l", "t", ";">>),
        ">", <<"&", "g", "t", ";">>),
        "\"", <<"&", "q", "u", "o", "t", ";">>),
        "'", <<"&", "a", "p", "o", "s", ";">>),
        "&", <<"&", "a", "m", "p", ";">>)

escape_xml(s) ==
    Replace(Replace(Replace(Replace(Replace(s,
        "&", <<"&", "a", "m", "p", ";">>),
        "<", <<"&", "l", "t", ";">>),
        ">", <<"&", "g", "t", ";">>),
        "\"", <<"&", "q", "u", "o", "t", ";">>),
        "'", <<"&", "a", "p", "o", "s", ";">>)

----------------------------------------------------------------------------
(* Pages: what BeautifulSoup hands to find_links.  A page is its anchors in *)
(* document order, whether an element with id="content" exists, and how    *)
(* many of the leading anchors lie outside (before) that element.  An      *)
(* anchor is its href attribute (if any), its text node, and the text of   *)
(* its parent that follows it.                                             *)

Anchor(h, t, sib) == [hasHref |-> TRUE, href |-> h, text |-> t, sibling |-> sib]

NoHrefAnchor(t) == [hasHref |-> FALSE, href |-> <<>>, text |-> t, sibling |-> <<>>]

SpecialText == <<"Q", "&", "A", "<", "\"", ">", "'">>

AnchorPool ==
    { Anchor(<<"/", "u", "p", "l", "o", "a", "d", "s", "/", "x", ".", "p", "d", "f">>, <<"A", "n", "n", "u", "a", "l", " ", "R", "e", "p", "o", "r", "t", " ", "2", "0", "2", "4">>, <<>>),
      Anchor(<<"/", "u", "p", "l", "o", "a", "d", "s", "/", "x", ".", "p", "d", "f">>, <<" ", "H", "o", "m", "e", " ">>, <<"1", "2", "-", "0", "5", "-", "2", "0", "2", "4">>),
      Anchor(<<"#">>, SpecialText, <<>>),
      Anchor(<<"j", "a", "v", "a", "s", "c", "r", "i", "p", "t", ":", "v", "o", "i", "d", "(", "0", ")">>, SpecialText, <<>>),
      Anchor(<<"H", "T", "T", "P", ":", "/", "/", "X", ".", "I", "N", "/", "a", "&", "b">>, SpecialText, <<>>),
      Anchor(<<"x">>, <<>>, <<>>),
      Anchor(<<"x">>, <<" ", "R", "e", "p", "o", "r", "t", " ">>, <<>>),
      Anchor(<<"x">>, SpecialText, <<>>),
      Anchor(<<" ", "/", "C", "D", "S", "C", "O", "/", "c", "d", "s", "c", "o", "D", "r", "u", "g", "s", "/", "x", " ">>, <<"M", "i", "n", "u", "t", "e", "s">>, <<>>),
      NoHrefAnchor(<<"M", "i", "n", "u", "t", "e", "s">>) }

PagesOfLen(n) ==
    { [content |-> c, pre |-> p, anchors |-> as] :
        as \in [1..n -> AnchorPool],
        <<c, p>> \in ({<<FALSE, 0>>} \cup {<<TRUE, k>> : k \in 0..n}) }

Pages == UNION { PagesOfLen(n) : n \in 0..MaxAnchors }

\* main = soup.find(id="content") or soup
ScopedAnchors(page) ==
    IF page.content
    THEN SubSeq(page.anchors, page.pre + 1, Len(page.anchors))
    ELSE page.anchors

\* main.find_all("a", href=True)
SelectAnchors(page) == SelectSeq(ScopedAnchors(page), LAMBDA a : a.hasHref)

----------------------------------------------------------------------------
(* find_links *)

IsScriptOrFragment(href) ==
    StartsWith(href, <<"j", "a", "v", "a", "s", "c", "r", "i", "p", "t", ":">>) \/ StartsWith(href, <<"#">>)

NormalizeLink_RelativeRaw(href) ==
    IF StartsWith(href, <<"/">>)
    THEN BaseOrigin \o href
    ELSE href

NormalizeLink(href) ==
    IF StartsWith(href, <<"/">>)
    THEN BaseOrigin \o href
    ELSE IF StartsWith(Lower(href), <<"h", "t", "t", "p">>)
         THEN href
         ELSE RStrip(TARGET, {"/"}) \o <<"/">> \o LStrip(href, {"/"})

\* a.get_text(" ", strip=True) or link
DisplayTitle(a, link) ==
    IF Strip(a.text) # <<>> THEN Strip(a.text) ELSE link

PassesFilter_AtLeast(link, title) ==
    \/ \E x \in FilterSubstrings : Contains(Lower(link), x)
    \/ Len(title) >= MinTitleLen

PassesFilter(link, title) ==
    \/ \E x \in FilterSubstrings : Contains(Lower(link), x)
    \/ Len(title) > MinTitleLen

AlreadySeen_Never(link, seen) == FALSE

AlreadySeen(link, seen) == link \in seen

\* a.parent.get_text(" ", strip=True): the parent's text nodes, each stripped,
\* the empty ones dropped, joined by one space
ParentText(a) ==
    LET t == Strip(a.text)
        s == Strip(a.sibling)
    IN  IF t = <<>> THEN s
        ELSE IF s = <<>> THEN t
        ELSE t \o <<" ">> \o s

\* dateparser.parse(token, fuzzy=False) returns a datetime for a date-like
\* token (digits with - or / separators here) and raises for any other
ParsesAsDate(token) ==
    /\ token # <<>>
    /\ token[1] \in Digits
    /\ \A i \in 1..Len(token) : token[i] \in Digits \cup {"-", "/"}

\* the loop over parent_text.split(): the first token that parses, as <<dt>>;
\* <<>> when none does (the item gets no "pubDate" key)
RECURSIVE FirstDate(_)
FirstDate(tokens) ==
    IF tokens = <<>> THEN <<>>
    ELSE IF ParsesAsDate(Head(tokens))
         THEN << [t |-> Head(tokens), tz |-> "naive"] >>
         ELSE FirstDate(Tail(tokens))

MakeItem(a, title, link) ==
    [title |-> title, link |-> link, guid |-> link, description |-> <<>>,
     pubDate |-> FirstDate(Split(ParentText(a)))]

RECURSIVE FindLinksLoop(_, _, _, _)
FindLinksLoop(anchors, i, its, seen) ==
    IF i > Len(anchors) THEN its
    ELSE LET a == anchors[i]
             href == Strip(a.href)
         IN  IF IsScriptOrFragment(href)
             THEN FindLinksLoop(anchors, i + 1, its, seen)
             ELSE LET link == NormalizeLink(href)
                      title == DisplayTitle(a, link)
                  IN  IF PassesFilter(link, title) /\ ~AlreadySeen(link, seen)
                      THEN FindLinksLoop(anchors, i + 1,
                                         Append(its, MakeItem(a, title, link)),
                                         seen \cup {link})
                      ELSE FindLinksLoop(anchors, i + 1, its, seen)

find_links(page) == FindLinksLoop(SelectAnchors(page), 1, <<>>, {})

----------------------------------------------------------------------------
(* build_rss.  The document is modelled by the values the f-string embeds:  *)
(* the channel fields and, per <item>, the text of each child element and  *)
(* the isPermaLink attribute.                                              *)

\* datetime.now(timezone.utc)
Now == [t |-> <<"N", "O", "W">>, tz |-> "UTC"]

\* email.utils.format_datetime
FormatDatetime(d) == <<"r", "f", "c", "2", "8", "2", "2", ":">> \o d.t \o <<" ">> \o (IF d.tz = "UTC" THEN <<"+", "0", "0", "0", "0">> ELSE <<"-", "0", "0", "0", "0">>)

\* now.strftime(...)
Strftime(d) == d.t

\* the em dash of the source title is written "-" (module text is ASCII)
SnapshotTitle == <<"S", "n", "a", "p", "s", "h", "o", "t", " ", "u", "p", "d", "a", "t", "e", " ", "-", " ", "p", "a", "g", "e", " ", "c", "h", "a", "n", "g", "e", "d", " ", "(">> \o Strftime(Now) \o <<")">>

SnapshotItem(raw_snapshot_hash) ==
    [title |-> escape_xml(SnapshotTitle),
     link |-> CHANNEL_LINK,
     description |-> <<"P", "a", "g", "e", " ", "s", "n", "a", "p", "s", "h", "o", "t", " ", "c", "h", "a", "n", "g", "e", "d", ";", " ", "c", "o", "n", "t", "e", "n", "t", " ", "h", "a", "s", "h", ":", " ">> \o raw_snapshot_hash,
     pubDate |-> FormatDatetime(Now),
     guid |-> raw_snapshot_hash,
     isPermaLink |-> "false"]

PubDateOf(it) ==
    IF it.pubDate = <<>> THEN Now
    ELSE IF it.pubDate[1].tz = "naive"
         THEN [it.pubDate[1] EXCEPT !.tz = "UTC"]
         ELSE it.pubDate[1]

RenderItem(it) ==
    [title |-> escape_xml(it.title),
     link |-> it.link,
     description |-> escape_xml(it.description),
     pubDate |-> FormatDatetime(PubDateOf(it)),
     guid |-> it.guid,
     isPermaLink |-> "true"]

Channel(its) ==
    [title |-> CHANNEL_TITLE, link |-> CHANNEL_LINK, description |-> CHANNEL_DESC,
     lastBuildDate |-> FormatDatetime(Now), language |-> <<"e", "n", "-", "I", "N">>,
     items |-> its]

build_rss_AlwaysSnapshot(its, raw_snapshot_hash) ==
    Channel(<<SnapshotItem(raw_snapshot_hash)>> \o [i \in 1..Len(its) |-> RenderItem(its[i])])

build_rss(its, raw_snapshot_hash) ==
    IF its = <<>>
    THEN Channel(<<SnapshotItem(raw_snapshot_hash)>>)
    ELSE Channel([i \in 1..Len(its) |-> RenderItem(its[i])])

----------------------------------------------------------------------------
(* main's helpers *)

HexDigits == <<"0", "1", "2", "3", "4", "5", "6", "7", "8", "9", "a", "b", "c", "d", "e", "f">>

RECURSIVE SumLens(_)
SumLens(as) ==
    IF as = <<>> THEN 0
    ELSE Len(Head(as).href) + 3 * Len(Head(as).text) + 7 * Len(Head(as).sibling)
         + (IF Head(as).hasHref THEN 1 ELSE 0) + 2 * SumLens(Tail(as))

\* hashlib.sha1(html.encode("utf-8")).hexdigest(): a digest of the page's
\* content rendered in lowercase hex (a two-digit checksum stands for SHA-1)
Sha1Hex(page) ==
    LET n == (SumLens(page.anchors) + (IF page.content THEN 13 + page.pre ELSE 0)) % 256
    IN  << HexDigits[(n \div 16) + 1], HexDigits[(n % 16) + 1] >>

FallbackRss_Unescaped(e) ==
    Channel(<< [title |-> <<"R", "S", "S", " ", "F", "e", "e", "d", " ", "U", "p", "d", "a", "t", "e", " ", "F", "a", "i", "l", "e", "d">>,
                link |-> CHANNEL_LINK,
                description |-> <<"U", "n", "a", "b", "l", "e", " ", "t", "o", " ", "f", "e", "t", "c", "h", " ", "u", "p", "d", "a", "t", "e", "s", " ", "f", "r", "o", "m", " ", "C", "D", "S", "C", "O", " ", "w", "e", "b", "s", "i", "t", "e", ".", " ", "E", "r", "r", "o", "r", ":", " ">>
                                \o e.msg,
                pubDate |-> FormatDatetime(Now),
                guid |-> <<"e", "r", "r", "o", "r", "-">> \o Strftime(Now),
                isPermaLink |-> "false"] >>)

\* the fallback document of main's except clause
FallbackRss(e) ==
    Channel(<< [title |-> <<"R", "S", "S", " ", "F", "e", "e", "d", " ", "U", "p", "d", "a", "t", "e", " ", "F", "a", "i", "l", "e", "d">>,
                link |-> CHANNEL_LINK,
                description |-> <<"U", "n", "a", "b", "l", "e", " ", "t", "o", " ", "f", "e", "t", "c", "h", " ", "u", "p", "d", "a", "t", "e", "s", " ", "f", "r", "o", "m", " ", "C", "D", "S", "C", "O", " ", "w", "e", "b", "s", "i", "t", "e", ".", " ", "E", "r", "r", "o", "r", ":", " ">>
                                \o escape_xml(e.msg),
                pubDate |-> FormatDatetime(Now),
                guid |-> <<"e", "r", "r", "o", "r", "-">> \o Strftime(Now),
                isPermaLink |-> "false"] >>)

ExitStatusOnFailure_One == 0 + 1

\* sys.exit(0)
ExitStatusOnFailure == 0

----------------------------------------------------------------------------
(* fetch_page *)

\* what requests.get / raise_for_status can raise, by the except clause that
\* catches it: ConnectionError, Timeout, HTTPError (a non-2xx status; a
\* RequestException) and any other RequestException
FailureKinds == {"conn", "timeout", "http", "other"}

ErrorMessage(kind) ==
    CASE kind = "conn"    -> <<"M", "a", "x", " ", "r", "e", "t", "r", "i", "e", "s", " ", "e", "x", "c", "e", "e", "d", "e", "d", " ", "(", "<", "'", "c", "o", "n", "n", "'", ">", ")">>
      [] kind = "timeout" -> <<"R", "e", "a", "d", " ", "t", "i", "m", "e", "d", " ", "o", "u", "t", ".", " ", "(", "r", "e", "a", "d", " ", "t", "i", "m", "e", "o", "u", "t", "=", "6", "0", ")">>
      [] kind = "http"    -> <<"4", "0", "4", " ", "C", "l", "i", "e", "n", "t", " ", "E", "r", "r", "o", "r", ":", " ", "N", "o", "t", " ", "F", "o", "u", "n", "d", " ", "f", "o", "r", " ", "u", "r", "l">>
      [] OTHER            -> <<"E", "x", "c", "e", "e", "d", "e", "d", " ", "3", "0", " ", "r", "e", "d", "i", "r", "e", "c", "t", "s", ".">>

RECURSIVE Pow2(_)
Pow2(n) == IF n = 0 THEN 1 ELSE 2 * Pow2(n - 1)

\* attempt < max_retries - 1, the test of all three except clauses
ShouldRetry_OffByOne(att, maxr) == att < maxr

ShouldRetry(att, maxr) == att < maxr - 1

\* wait_time = (2 ** attempt) * base, base by except clause
WaitTime_AllFive(kind, att) == Pow2(att) * ConnBackoffBase

WaitTime(kind, att) ==
    Pow2(att) * (CASE kind = "conn"    -> ConnBackoffBase
                   [] kind = "timeout" -> TimeoutBackoffBase
                   [] OTHER            -> RequestBackoffBase)

\* one iteration's try block succeeding: the GET answers 2xx, raise_for_status
\* passes, return r.text
FetchAttemptOk ==
    /\ pc = "fetch" /\ fstatus = "running" /\ fpc = "try"
    /\ \E body \in Pages :
          /\ served' = <<body>>
          /\ fresult' = <<body>>
    /\ nreq' = nreq + 1
    /\ fstatus' = "returned"
    /\ UNCHANGED <<pc, max_retries, attempt, fpc, exc, wait_time, onlyConn>>
    /\ UNCHANGED <<mainVars, escVars>>

\* one iteration's try block raising: control enters the matching except clause
FetchAttemptFails ==
    /\ pc = "fetch" /\ fstatus = "running" /\ fpc = "try"
    /\ \E kind \in FailureKinds :
          /\ exc' = kind
          /\ onlyConn' = (onlyConn /\ kind = "conn")
    /\ nreq' = nreq + 1
    /\ fpc' = "except"
    /\ UNCHANGED <<pc, max_retries, attempt, fstatus, wait_time, served, fresult>>
    /\ UNCHANGED <<mainVars, escVars>>

\* the except clause: compute wait_time and call time.sleep, or re-raise
FetchHandle ==
    /\ pc = "fetch" /\ fstatus = "running" /\ fpc = "except"
    /\ IF ShouldRetry(attempt, max_retries)
       THEN /\ wait_time' = WaitTime(exc, attempt)
            /\ fpc' = "sleep"
            /\ UNCHANGED fstatus
       ELSE /\ fstatus' = "raised"
            /\ UNCHANGED <<wait_time, fpc>>
    /\ UNCHANGED <<pc, max_retries, attempt, exc, onlyConn, served, fresult, nreq>>
    /\ UNCHANGED <<mainVars, escVars>>

\* time.sleep returns and the for loop advances; a range that is exhausted ends
\* the function without a return statement (it returns None)
FetchSleepDone ==
    /\ pc = "fetch" /\ fstatus = "running" /\ fpc = "sleep"
    /\ attempt' = attempt + 1
    /\ IF attempt + 1 < max_retries
       THEN /\ fpc' = "try"
            /\ UNCHANGED <<fstatus, fresult>>
       ELSE /\ fstatus' = "returned"
            /\ fresult' = <<>>
            /\ UNCHANGED fpc
    /\ UNCHANGED <<pc, max_retries, exc, wait_time, onlyConn, served, nreq>>
    /\ UNCHANGED <<mainVars, escVars>>

----------------------------------------------------------------------------
(* main *)

\* exceptions a library call inside find_links or build_rss can raise
LibraryErrors ==
    { <<"C", "o", "u", "l", "d", "n", "'", "t", " ", "f", "i", "n", "d", " ", "a", " ", "t", "r", "e", "e", " ", "b", "u", "i", "l", "d", "e", "r", ":", " ", "l", "x", "m", "l">>, <<"<", "M", "e", "m", "o", "r", "y", "E", "r", "r", "o", "r", ">", " ", "&", " ", "'", "c", "o", "'">> }

FrameIdle ==
    /\ attempt' = 0 /\ fpc' = "try" /\ fstatus' = "idle" /\ exc' = "none"
    /\ wait_time' = 0 /\ onlyConn' = TRUE /\ served' = <<>> /\ fresult' = <<>>
    /\ nreq' = 0
    /\ UNCHANGED max_retries

\* html = fetch_page(TARGET): the call, with the default max_retries
MainCallFetch ==
    /\ pc = "start"
    /\ pc' = "fetch"
    /\ max_retries' = DefaultMaxRetries
    /\ fstatus' = "running"
    /\ UNCHANGED <<attempt, fpc, exc, wait_time, onlyConn, served, fresult, nreq>>
    /\ UNCHANGED <<mainVars, escVars>>

\* fetch_page returned: html is bound and raw_hash computed (html.encode on
\* None raises AttributeError, caught by main's except clause)
MainHash ==
    /\ pc = "fetch" /\ fstatus = "returned"
    /\ IF fresult # <<>>
       THEN /\ html' = fresult
            /\ raw_hash' = Sha1Hex(fresult[1])
            /\ pc' = "find"
            /\ UNCHANGED error
       ELSE /\ error' = [from |-> "main", msg |-> <<"'", "N", "o", "n", "e", "T", "y", "p", "e", "'", " ", "o", "b", "j", "e", "c", "t", " ", "h", "a", "s", " ", "n", "o", " ", "a", "t", "t", "r", "i", "b", "u", "t", "e", " ", "'", "e", "n", "c", "o", "d", "e", "'">>]
            /\ pc' = "except"
            /\ UNCHANGED <<html, raw_hash>>
    /\ FrameIdle
    /\ UNCHANGED <<items, rss, file, exit_code, escVars>>

\* fetch_page raised: the exception reaches main's except clause
MainFetchRaised ==
    /\ pc = "fetch" /\ fstatus = "raised"
    /\ error' = [from |-> "fetch_page", msg |-> ErrorMessage(exc)]
    /\ pc' = "except"
    /\ FrameIdle
    /\ UNCHANGED <<html, raw_hash, items, rss, file, exit_code, escVars>>

\* items = find_links(html)
MainFindLinks ==
    /\ pc = "find"
    /\ items' = find_links(html[1])
    /\ pc' = "build"
    /\ UNCHANGED <<html, raw_hash, rss, error, file, exit_code, fetchVars, escVars>>

\* find_links raises (it has no handler of its own around the parse or the loop)
MainFindLinksRaises ==
    /\ pc = "find"
    /\ \E m \in LibraryErrors : error' = [from |-> "find_links", msg |-> m]
    /\ pc' = "except"
    /\ UNCHANGED <<html, raw_hash, items, rss, file, exit_code, fetchVars, escVars>>

\* rss = build_rss(items, raw_hash)
MainBuildRss ==
    /\ pc = "build"
    /\ rss' = <<build_rss(items, raw_hash)>>
    /\ pc' = "write"
    /\ UNCHANGED <<html, raw_hash, items, error, file, exit_code, fetchVars, escVars>>

MainBuildRssRaises ==
    /\ pc = "build"
    /\ \E m \in LibraryErrors : error' = [from |-> "build_rss", msg |-> m]
    /\ pc' = "except"
    /\ UNCHANGED <<html, raw_hash, items, rss, file, exit_code, fetchVars, escVars>>

\* open(OUTPUT, "w").write(rss); main returns and the interpreter exits 0
MainWrite ==
    /\ pc = "write"
    /\ file' = rss
    /\ exit_code' = 0
    /\ pc' = "done"
    /\ UNCHANGED <<html, raw_hash, items, rss, error, fetchVars, escVars>>

\* except Exception as e: write the fallback feed, sys.exit(0)
MainExcept ==
    /\ pc = "except"
    /\ file' = <<FallbackRss(error)>>
    /\ exit_code' = ExitStatusOnFailure
    /\ pc' = "exited"
    /\ UNCHANGED <<html, raw_hash, items, rss, error, fetchVars, escVars>>

----------------------------------------------------------------------------
(* escape_xml called on its own *)

EscAlphabet == {"&", "<", ">", "\"", "'", "l", "t", ";"}

EscStrings == UNION { [1..n -> EscAlphabet] : n \in 0..MaxStrLen }

EscapeCall ==
    /\ epc = "call"
    /\ esc_out' = <<escape_xml(esc_in)>>
    /\ epc' = "done"
    /\ UNCHANGED <<esc_in, pc, fetchVars, mainVars>>

----------------------------------------------------------------------------
(* Specifications *)

InitFrame ==
    /\ attempt = 0 /\ fpc = "try" /\ exc = "none" /\ wait_time = 0
    /\ onlyConn = TRUE /\ served = <<>> /\ fresult = <<>> /\ nreq = 0

InitMainLocals ==
    /\ html = <<>> /\ raw_hash = <<>> /\ items = <<>> /\ rss = <<>>
    /\ error = [from |-> "none", msg |-> <<>>]
    /\ file = <<>> /\ exit_code = -1

InitEscIdle == esc_in = <<>> /\ esc_out = <<>> /\ epc = "idle"

\* one run of the script
Init ==
    /\ pc = "start"
    /\ max_retries = DefaultMaxRetries
    /\ fstatus = "idle"
    /\ InitFrame /\ InitMainLocals /\ InitEscIdle

Next ==
    \/ MainCallFetch
    \/ FetchAttemptOk
    \/ FetchAttemptFails
    \/ FetchHandle
    \/ FetchSleepDone
    \/ MainHash
    \/ MainFetchRaised
    \/ MainFindLinks
    \/ MainFindLinksRaises
    \/ MainBuildRss
    \/ MainBuildRssRaises
    \/ MainWrite
    \/ MainExcept

Spec == Init /\ [][Next]_vars

\* fetch_page called directly with any max_retries in 1..MaxRetries.  The
\* function is sequential code: a request, a handler and a sleep each end, so
\* the next step is always taken.
InitFetch ==
    /\ pc = "fetch"
    /\ max_retries \in 1..MaxRetries
    /\ fstatus = "running"
    /\ InitFrame /\ InitMainLocals /\ InitEscIdle

NextFetch ==
    \/ FetchAttemptOk
    \/ FetchAttemptFails
    \/ FetchHandle
    \/ FetchSleepDone

SpecFetch == InitFetch /\ [][NextFetch]_vars /\ WF_vars(NextFetch)

\* escape_xml applied to every string over EscAlphabet up to MaxStrLen
InitEscape ==
    /\ pc = "idle"
    /\ max_retries = DefaultMaxRetries
    /\ fstatus = "idle"
    /\ InitFrame /\ InitMainLocals
    /\ esc_in \in EscStrings /\ esc_out = <<>> /\ epc = "call"

NextEscape == EscapeCall

SpecEscape == InitEscape /\ [][NextEscape]_vars

----------------------------------------------------------------------------
(* Properties *)

\* the five predefined XML entities and the character each stands for
Entities ==
    { <<<<"&", "a", "m", "p", ";">>, "&">>, <<<<"&", "l", "t", ";">>, "<">>, <<<<"&", "g", "t", ";">>, ">">>,
      <<<<"&", "q", "u", "o", "t", ";">>, "\"">>, <<<<"&", "a", "p", "o", "s", ";">>, "'">> }

Suffix(s, i) == SubSeq(s, i, Len(s))

\* element text an XML parser accepts: no < or >, and every & starts an entity
WellFormedText(s) ==
    \A i \in 1..Len(s) :
        /\ s[i] \notin {"<", ">"}
        /\ s[i] = "&" => \E e \in Entities : StartsWith(Suffix(s, i), e[1])

EntityAt(s, i) == \E e \in Entities : StartsWith(Suffix(s, i), e[1])

\* what an XML parser reads back: each entity replaced by its character.  An
\* entity name holds no &, so entities never overlap and each position is
\* either the start of an entity, inside one, or a plain character.
DecodeEntities(s) ==
    LET ent(i) == CHOOSE e \in Entities : StartsWith(Suffix(s, i), e[1])
        inside(i) == \E j \in 1..(i - 1) :
                        EntityAt(s, j) /\ i < j + Len(ent(j)[1])
    IN  Flatten([i \in 1..Len(s) |->
                    IF inside(i) THEN <<>>
                    ELSE IF EntityAt(s, i) THEN <<ent(i)[2]>>
                    ELSE <<s[i]>>])

\* the states in which main holds the result of find_links(html)
Extracted == pc \in {"build", "write", "done"}

\* the anchors find_links iterates over, and what each one normalises to
Candidates == SelectAnchors(html[1])

HrefOf(a) == Strip(a.href)

Skipped(a) == StartsWith(HrefOf(a), <<"j", "a", "v", "a", "s", "c", "r", "i", "p", "t", ":">>) \/ StartsWith(HrefOf(a), <<"#">>)

LinkOf(a) ==
    IF StartsWith(HrefOf(a), <<"/">>) THEN <<"h", "t", "t", "p", "s", ":", "/", "/", "c", "d", "s", "c", "o", "o", "n", "l", "i", "n", "e", ".", "g", "o", "v", ".", "i", "n">> \o HrefOf(a)
    ELSE IF StartsWith(Lower(HrefOf(a)), <<"h", "t", "t", "p">>) THEN HrefOf(a)
    ELSE <<"h", "t", "t", "p", "s", ":", "/", "/", "c", "d", "s", "c", "o", "o", "n", "l", "i", "n", "e", ".", "g", "o", "v", ".", "i", "n", "/", "C", "D", "S", "C", "O", "/", "c", "d", "s", "c", "o", "D", "r", "u", "g", "s", "/">> \o HrefOf(a)

TitleOf(a) == IF Strip(a.text) = <<>> THEN LinkOf(a) ELSE Strip(a.text)

LinkMatches(a) ==
    \E x \in { <<".", "p", "d", "f">>, <<"/", "u", "p", "l", "o", "a", "d", "s", "/">>, <<"d", "o", "w", "n", "l", "o", "a", "d">>, <<"v", "i", "e", "w", "f", "i", "l", "e">>, <<"u", "p", "l", "o", "a", "d", "s">> } :
        Contains(Lower(LinkOf(a)), x)

Relevant(a) == ~Skipped(a) /\ (LinkMatches(a) \/ Len(TitleOf(a)) > 6)

\* index of the first candidate anchor that is relevant and normalises to link
FirstRelevant(link) ==
    CHOOSE i \in 1..Len(Candidates) :
        /\ Relevant(Candidates[i]) /\ LinkOf(Candidates[i]) = link
        /\ \A j \in 1..(i - 1) :
              ~(Relevant(Candidates[j]) /\ LinkOf(Candidates[j]) = link)

----------------------------------------------------------------------------
\* C1 (as claimed): an attempt of fetch_page that ends in a non-2xx status
\* makes the fetch fail at once: after the status error is caught the call is
\* in that except clause or has raised; it never sleeps and never requests again.
C1_StatusErrorFailsImmediately ==
    exc = "http" => (fpc = "except" /\ fstatus \in {"running", "raised"})

\* C1 (amended): a non-2xx status is handled like any other RequestException:
\* on an attempt that is not the last (attempt < max_retries - 1) fetch_page
\* sleeps 3 * 2^attempt seconds and goes on to the next request; only on the
\* last attempt does the error leave fetch_page, after max_retries requests.
C1_StatusErrorRetriedWithBackoff ==
    /\ (exc = "http" /\ fpc = "sleep") =>
          (attempt < max_retries - 1 /\ wait_time = 3 * Pow2(attempt))
    /\ (exc = "http" /\ fstatus = "raised") =>
          (attempt = max_retries - 1 /\ nreq = max_retries)
    /\ (fstatus = "running" /\ fpc = "try") =>
          (attempt < max_retries /\ nreq = attempt)

\* a status error on the first attempt, a backoff, and a second request that
\* succeeded
C1_Witness ==
    /\ pc = "fetch" /\ fstatus = "returned" /\ exc = "http"
    /\ nreq = 2 /\ wait_time = 3 /\ served # <<>>

----------------------------------------------------------------------------
\* the safety half of C2: a 2xx response is returned as it was served, a call
\* that saw only connection failures returns nothing but a served body, and
\* such a call raises only once max_retries requests have been made
C2_Safety ==
    /\ served # <<>> => (fstatus = "returned" /\ fresult = served)
    /\ (onlyConn /\ fstatus = "returned") =>
          (served # <<>> /\ fresult = served /\ nreq <= max_retries)
    /\ (onlyConn /\ fstatus = "raised") => (served = <<>> /\ nreq = max_retries)
    /\ (onlyConn /\ fstatus = "running") => nreq <= max_retries

----------------------------------------------------------------------------
\* C3: a run of main in which fetch_page, find_links or build_rss raised ends
\* with the output file holding a feed of exactly one item, the error notice,
\* and with exit status 0; no run ends with another status or without a file.
C3_FallbackOnFailure ==
    /\ error.from \in {"fetch_page", "find_links", "build_rss"} =>
          pc \in {"except", "exited"}
    /\ (pc = "exited" /\ error.from \in {"fetch_page", "find_links", "build_rss"}) =>
          /\ file # <<>>
          /\ Len(file[1].items) = 1
          /\ file[1].items[1].title = <<"R", "S", "S", " ", "F", "e", "e", "d", " ", "U", "p", "d", "a", "t", "e", " ", "F", "a", "i", "l", "e", "d">>
          /\ exit_code = 0
    /\ pc \in {"done", "exited"} => (file # <<>> /\ exit_code = 0)
    /\ exit_code \in {-1, 0}

\* a run that ended after build_rss raised
C3_Witness == pc = "exited" /\ error.from = "build_rss" /\ items # <<>>

----------------------------------------------------------------------------
\* C4: the document build_rss returns for the items of find_links is
\* well-formed XML: the title, link, description and guid of every item hold
\* no unescaped &, < or >.
C4_OutputWellFormed ==
    rss # <<>> =>
        \A i \in 1..Len(rss[1].items) :
            /\ WellFormedText(rss[1].items[i].title)
            /\ WellFormedText(rss[1].items[i].link)
            /\ WellFormedText(rss[1].items[i].description)
            /\ WellFormedText(rss[1].items[i].guid)

----------------------------------------------------------------------------
\* C5: when find_links returns no item the feed holds exactly one item, whose
\* guid is the page's content hash with isPermaLink="false"; otherwise it
\* holds one item per extracted item, in order, each with its own link as
\* guid and isPermaLink="true", and no snapshot item.
C5_SnapshotIffEmpty ==
    rss # <<>> =>
        LET out == rss[1].items
        IN  IF items = <<>>
            THEN /\ Len(out) = 1
                 /\ out[1].guid = Sha1Hex(html[1])
                 /\ out[1].isPermaLink = "false"
            ELSE /\ Len(out) = Len(items)
                 /\ \A i \in 1..Len(out) :
                       /\ out[i].link = items[i].link
                       /\ out[i].guid = items[i].guid
                       /\ out[i].isPermaLink = "true"

\* a page with anchors in scope, none of which passed the filter
C5_Witness ==
    /\ pc = "done" /\ items = <<>> /\ Len(Candidates) = 2
    /\ Len(file[1].items) = 1 /\ file[1].items[1].guid = raw_hash

----------------------------------------------------------------------------
----------------------------------------------------------------------------
\* C7 (as claimed): when find_links raises, the run degrades to an empty item
\* list: the exception does not reach main's except clause and the feed
\* written is the one build_rss makes from zero items.
C7_ExtractionDegradesToEmpty ==
    error.from = "find_links" =>
        /\ pc \notin {"except", "exited"}
        /\ file # <<>> => file[1] = build_rss(<<>>, raw_hash)

\* C7 (amended): when find_links raises, the exception propagates to main's
\* except clause; build_rss is not called, and the feed written is the
\* fallback feed: one error-notice item whose guid is "error-<timestamp>"
\* with isPermaLink="false" (not the content hash) and whose description
\* carries the escaped error message; the exit status is 0.
C7_ExtractionErrorReachesFallback ==
    error.from = "find_links" =>
        /\ pc \in {"except", "exited"}
        /\ rss = <<>> /\ items = <<>>
        /\ pc = "exited" =>
              /\ exit_code = 0
              /\ file # <<>> /\ Len(file[1].items) = 1
              /\ file[1].items[1].guid = <<"e", "r", "r", "o", "r", "-", "N", "O", "W">>
              /\ file[1].items[1].guid # raw_hash
              /\ file[1].items[1].isPermaLink = "false"
              /\ WellFormedText(file[1].items[1].description)
              /\ DecodeEntities(file[1].items[1].description)
                    = <<"U", "n", "a", "b", "l", "e", " ", "t", "o", " ", "f", "e", "t", "c", "h", " ", "u", "p", "d", "a", "t", "e", "s", " ", "f", "r", "o", "m", " ", "C", "D", "S", "C", "O", " ", "w", "e", "b", "s", "i", "t", "e", ".", " ", "E", "r", "r", "o", "r", ":", " ">> \o error.msg

\* a run that ended after find_links raised on a page with anchors
C7_Witness ==
    /\ pc = "exited" /\ error.from = "find_links"
    /\ html # <<>> /\ html[1].anchors # <<>> /\ file # <<>>

----------------------------------------------------------------------------
\* C8 (as claimed): every item find_links returns has a link beginning with
\* the characters http.
C8_LinksBeginWithHttp ==
    Extracted => \A i \in 1..Len(items) : StartsWith(items[i].link, <<"h", "t", "t", "p">>)

\* C8 (amended): every item find_links returns has a link beginning with
\* http when letter case is ignored (an absolute href keeps its own case),
\* whichever of the three normalisation branches produced it.
C8_LinksBeginWithHttpAnyCase ==
    Extracted =>
        \A i \in 1..Len(items) : StartsWith(Lower(items[i].link), <<"h", "t", "t", "p">>)

\* items from the relative branch and from the already-absolute branch together
C8_Witness ==
    /\ Extracted /\ Len(items) = 2
    /\ \E i \in 1..2 : StartsWith(items[i].link, <<"H", "T", "T", "P", ":", "/", "/">>)
    /\ \E i \in 1..2 : items[i].link = <<"h", "t", "t", "p", "s", ":", "/", "/", "c", "d", "s", "c", "o", "o", "n", "l", "i", "n", "e", ".", "g", "o", "v", ".", "i", "n", "/", "C", "D", "S", "C", "O", "/", "c", "d", "s", "c", "o", "D", "r", "u", "g", "s", "/", "x">>

----------------------------------------------------------------------------
\* C9: escape_xml(s) holds none of < > " ' and no & other than one starting
\* an entity, and decoding its entities gives s back.
C9_EscapeRoundTrip ==
    epc = "done" =>
        /\ \A i \in 1..Len(esc_out[1]) : esc_out[1][i] \notin {"<", ">", "\"", "'"}
        /\ WellFormedText(esc_out[1])
        /\ DecodeEntities(esc_out[1]) = esc_in

\* an input that already reads as an entity
C9_Witness ==
    epc = "done" /\ esc_in = <<"&", "l", "t", ";">> /\ esc_out[1] = <<"&", "a", "m", "p", ";", "l", "t", ";">>

----------------------------------------------------------------------------
\* C10 (as claimed): a single anchor whose text has at most 6 characters and
\* whose normalised link holds none of the substrings gives zero items; a
\* single anchor whose text has more than 6 characters gives exactly one item
\* with any href.
C10_TextLengthDecides ==
    (Extracted /\ Len(Candidates) = 1) =>
        LET a == Candidates[1]
        IN  /\ (Len(Strip(a.text)) <= 6 /\ ~LinkMatches(a)) => items = <<>>
            /\ Len(Strip(a.text)) > 6 => Len(items) = 1

\* C10 (amended): the length test is on the display title (the stripped text,
\* or the normalised link when the text is empty) and applies only to hrefs
\* that do not start with javascript: or #.  For such an href, a title of at
\* most 6 characters with a link holding none of the substrings gives zero
\* items and a title of more than 6 characters gives exactly one item; an
\* href starting with javascript: or # gives zero items whatever the text.
C10_TitleLengthDecides ==
    (Extracted /\ Len(Candidates) = 1) =>
        LET a == Candidates[1]
        IN  /\ Skipped(a) => items = <<>>
            /\ (~Skipped(a) /\ Len(TitleOf(a)) <= 6 /\ ~LinkMatches(a)) => items = <<>>
            /\ (~Skipped(a) /\ Len(TitleOf(a)) > 6) =>
                  (Len(items) = 1 /\ items[1].title = TitleOf(a))

\* a lone anchor with a six-character text and a link that matches nothing
C10_Witness ==
    /\ Extracted /\ Len(Candidates) = 1 /\ items = <<>>
    /\ Strip(Candidates[1].text) = <<"R", "e", "p", "o", "r", "t">>
    /\ ~Skipped(Candidates[1]) /\ ~LinkMatches(Candidates[1])

====
